---- MODULE Spec2Model ----
(***************************************************************************)
(* Cograph generator: the recursive cotree composer, the graph6 encoder    *)
(* and the two pipelines of generator.py (streaming-to-file with batches   *)
(* and a worker pool per batch; in-memory with imap_unordered).            *)
(*                                                                         *)
(* A structure string is a sequence of one-character strings, for example  *)
(* J(a,a) is <<"J","(","a",",","a",")">>.  A graph6 line is the sequence   *)
(* of its character codes, for example "A_" is <<65, 95>>.                 *)
(***************************************************************************)
EXTENDS Integers, Sequences, FiniteSets, Bags, TLC

\* ------------------------------------------------------------------ bounds

\* Largest node_count of a call.
MaxN == 4

\* Most structures an in-memory call encodes (every completion order is explored).
MaxMemItems == 4

\* Largest batch_size of a call.
MaxBatch == 3

\* Largest num_processes of a call.
MaxProcs == 2

\* ------------------------------------------------------- sequence helpers

RECURSIVE Flatten(_)
Flatten(ss) == IF ss = <<>> THEN <<>> ELSE Head(ss) \o Flatten(Tail(ss))

Min2(a, b) == IF a < b THEN a ELSE b

\* ------------------------------------------------- utils.py (not in src/)

\* Partitions of n into non-increasing parts, each part at most m, largest
\* first part first.
RECURSIVE PartitionsUpTo(_, _)
PartitionsUpTo(n, m) ==
    IF n = 0 THEN << <<>> >>
    ELSE Flatten([i \in 1..Min2(n, m) |->
             LET k == Min2(n, m) + 1 - i
                 rest == PartitionsUpTo(n - k, k)
             IN  [j \in 1..Len(rest) |-> <<k>> \o rest[j]]])

\* _generate_all_unique_integer_partitions(n): every partition of n once,
\* the one-part partition <<n>> included (the composer skips it).
AllUniqueIntegerPartitions(n) == PartitionsUpTo(n, n)

\* _generate_ordered_cartesian_product(child_streams): one child per stream;
\* among adjacent equal streams the chosen indices never decrease
\* (combinations with repetition), so permutations of interchangeable
\* children are produced once.
RECURSIVE OrderedProductFrom(_, _, _)
OrderedProductFrom(streams, k, lo) ==
    IF k > Len(streams) THEN << <<>> >>
    ELSE Flatten([d \in 1..(Len(streams[k]) + 1 - lo) |->
             LET i == lo + d - 1
                 nextLo == IF k < Len(streams) /\ streams[k + 1] = streams[k]
                           THEN i ELSE 1
                 rest == OrderedProductFrom(streams, k + 1, nextLo)
             IN  [j \in 1..Len(rest) |-> <<streams[k][i]>> \o rest[j]]])

OrderedCartesianProduct(streams) == OrderedProductFrom(streams, 1, 1)

\* The children joined by commas.
RECURSIVE JoinChildren(_)
JoinChildren(children) ==
    IF Len(children) = 1 THEN children[1]
    ELSE children[1] \o <<",">> \o JoinChildren(Tail(children))

\* _apply_cograph_operator_structure(operator, children): "J(c1,c2,...)".
ApplyCographOperatorStructure(operator, children) ==
    <<operator, "(">> \o JoinChildren(children) \o <<")">>

\* ---------------------------------------------- the recursive composer

\* The composer with the emission nested in the loop over the parts: every
\* prefix of the child streams is combined and emitted.
RECURSIVE ComposePartialEmit(_, _)
ComposePartialEmit(leaves, depth) ==
    LET operator == IF depth % 2 = 0 THEN "J" ELSE "U"
        parts == AllUniqueIntegerPartitions(leaves)
        multi == SelectSeq(parts, LAMBDA p : Len(p) /= 1)
    IN  IF leaves = 1 THEN << <<"a">> >>
        ELSE Flatten([pi \in 1..Len(multi) |->
                 Flatten([m \in 1..Len(multi[pi]) |->
                     LET child_streams ==
                             [k \in 1..m |->
                                 ComposePartialEmit(multi[pi][k], depth + 1)]
                         combos == OrderedCartesianProduct(child_streams)
                     IN  [c \in 1..Len(combos) |->
                             ApplyCographOperatorStructure(operator, combos[c])]])])

\* The composer leaving the partition loop at the one-part partition
\* (break for continue).
RECURSIVE ComposeBreak(_, _)
ComposeBreak(leaves, depth) ==
    LET operator == IF depth % 2 = 0 THEN "J" ELSE "U"
        parts == AllUniqueIntegerPartitions(leaves)
        firstTrivial == IF \E i \in 1..Len(parts) : Len(parts[i]) = 1
                        THEN CHOOSE i \in 1..Len(parts) :
                                 /\ Len(parts[i]) = 1
                                 /\ \A j \in 1..(i - 1) : Len(parts[j]) /= 1
                        ELSE Len(parts) + 1
        multi == SubSeq(parts, 1, firstTrivial - 1)
    IN  IF leaves = 1 THEN << <<"a">> >>
        ELSE Flatten([pi \in 1..Len(multi) |->
                 LET child_streams ==
                         [k \in 1..Len(multi[pi]) |->
                             ComposeBreak(multi[pi][k], depth + 1)]
                     combos == OrderedCartesianProduct(child_streams)
                 IN  [c \in 1..Len(combos) |->
                         ApplyCographOperatorStructure(operator, combos[c])]])

\* The composer recursing at the same depth (depth for depth + 1).
RECURSIVE ComposeSameDepth(_, _)
ComposeSameDepth(leaves, depth) ==
    LET operator == IF depth % 2 = 0 THEN "J" ELSE "U"
        parts == AllUniqueIntegerPartitions(leaves)
        multi == SelectSeq(parts, LAMBDA p : Len(p) /= 1)
    IN  IF leaves = 1 THEN << <<"a">> >>
        ELSE Flatten([pi \in 1..Len(multi) |->
                 LET child_streams ==
                         [k \in 1..Len(multi[pi]) |->
                             ComposeSameDepth(multi[pi][k], depth)]
                     combos == OrderedCartesianProduct(child_streams)
                 IN  [c \in 1..Len(combos) |->
                         ApplyCographOperatorStructure(operator, combos[c])]])

\* generate_all_cotree_structures(node_count, depth) of
\* cograph_generator/generator.py: the sequence the generator yields.
RECURSIVE generate_all_cotree_structures(_, _)
generate_all_cotree_structures(leaves, depth) ==
    LET operator == IF depth % 2 = 0 THEN "J" ELSE "U"
        parts == AllUniqueIntegerPartitions(leaves)
        multi == SelectSeq(parts, LAMBDA p : Len(p) /= 1)
    IN  IF leaves = 1 THEN << <<"a">> >>
        ELSE Flatten([pi \in 1..Len(multi) |->
                 LET child_streams ==
                         [k \in 1..Len(multi[pi]) |->
                             generate_all_cotree_structures(multi[pi][k], depth + 1)]
                     combos == OrderedCartesianProduct(child_streams)
                 IN  [c \in 1..Len(combos) |->
                         ApplyCographOperatorStructure(operator, combos[c])]])

\* ------------------------------------------- structures.py (not in src/)

\* generate_connected_cotree_structures(leaves, depth): the composer
\* itself; at depth 0 the root is J, so the graph is connected.
generate_connected_cotree_structures(leaves, depth) ==
    generate_all_cotree_structures(leaves, depth)

\* structures.generate_all_cotree_structures(leaves, depth): the
\* connected structures, then the unions of two or more connected
\* components (the composer one level down); the single leaf once.
all_cotree_structures(leaves, depth) ==
    IF leaves = 1 THEN << <<"a">> >>
    ELSE generate_connected_cotree_structures(leaves, depth)
           \o generate_connected_cotree_structures(leaves, depth + 1)

\* ---------------------------------------- adjacency_g6.py (not in src/)

\* graph6: a size n <= 62 is the one character n + 63; each packed group of
\* six bits is the character value + 63.
G6Offset == 63
G6MaxN == 62

\* Open parentheses minus closed ones before position i.
Balance(s, i) ==
    Cardinality({k \in 1..(i - 1) : s[k] = "("})
      - Cardinality({k \in 1..(i - 1) : s[k] = ")"})

LeafCount(s) == Cardinality({k \in 1..Len(s) : s[k] = "a"})

\* The children of a node: its argument text split at the commas outside
\* every parenthesis.
RECURSIVE SplitArgs(_)
SplitArgs(s) ==
    LET commas == {i \in 1..Len(s) : s[i] = "," /\ Balance(s, i) = 0}
    IN  IF commas = {} THEN <<s>>
        ELSE LET c == CHOOSE i \in commas : \A j \in commas : i <= j
             IN  <<SubSeq(s, 1, c - 1)>> \o SplitArgs(SubSeq(s, c + 1, Len(s)))

\* The edges <<i, j>>, i < j, of the graph of structure s, its leaves
\* numbered first + 0, first + 1, ... from left to right: a union adds no
\* edge between its children, a join adds every edge between two children.
RECURSIVE StructureEdges(_, _)
StructureEdges(s, first) ==
    IF s = <<"a">> THEN {}
    ELSE LET kids == SplitArgs(SubSeq(s, 3, Len(s) - 1))
             start == [k \in 1..Len(kids) |->
                          first + LeafCount(Flatten(SubSeq(kids, 1, k - 1)))]
             block == [k \in 1..Len(kids) |->
                          start[k]..(start[k] + LeafCount(kids[k]) - 1)]
             inner == UNION {StructureEdges(kids[k], start[k]) : k \in 1..Len(kids)}
             pairs == {q \in (1..Len(kids)) \X (1..Len(kids)) : q[1] < q[2]}
             cross == UNION {block[q[1]] \X block[q[2]] : q \in pairs}
         IN  IF s[1] = "J" THEN inner \cup cross ELSE inner

\* The upper triangle column by column: x(0,1), x(0,2), x(1,2), x(0,3), ...
AdjacencyBits(n, edges) ==
    [k \in 1..((n * (n - 1)) \div 2) |->
        LET j == CHOOSE c \in 1..(n - 1) :
                     (c * (c - 1)) \div 2 < k /\ k <= (c * (c + 1)) \div 2
            i == k - (j * (j - 1)) \div 2 - 1
        IN  IF <<i, j>> \in edges THEN 1 ELSE 0]

\* Six bits per character, most significant first, zero padded on the right.
PackBits(bits) ==
    LET bit(k) == IF k <= Len(bits) THEN bits[k] ELSE 0
    IN  [c \in 1..((Len(bits) + 5) \div 6) |->
            G6Offset + 32 * bit(6 * c - 5) + 16 * bit(6 * c - 4) + 8 * bit(6 * c - 3)
                     + 4 * bit(6 * c - 2) + 2 * bit(6 * c - 1) + bit(6 * c)]

\* What a worker hands back when the encoder raised.
Raised == <<-1>>

\* A result slot not filled yet.
NoResult == <<>>

\* _structure_to_g6_optimized_worker(structure): the graph6 line, or the
\* error for a size the one-character size field cannot hold.
StructureToG6(structure) ==
    LET n == LeafCount(structure)
    IN  IF n > G6MaxN THEN Raised
        ELSE <<n + G6Offset>> \o PackBits(AdjacencyBits(n, StructureEdges(structure, 0)))

\* ------------------------------------------------ the calls' inputs

\* Names tempfile.NamedTemporaryFile can draw.
TempNames == {"tmpA", "tmpB"}

\* batch_size: the positive sizes up to the bound, and 0 and -1.
BatchSizes == {-1} \cup 0..MaxBatch

\* Paths a caller may give as output_filename.
OutputNames == {"outA", "outB"}

\* A line an earlier run left in the output file.
StaleLine == <<0>>

\* What each generator yields for each node_count, in order.
Yielded ==
    [connected |-> [n \in 1..(MaxN + 1) |->
                       generate_connected_cotree_structures(n, 0)] \o <<>>,
     all |-> [n \in 1..(MaxN + 1) |-> all_cotree_structures(n, 0)] \o <<>>]

\* The encoder's line for every structure a generator can yield, worked
\* out once: the workers below look their structure up here.
G6Lines ==
    LET yielded == UNION {{Yielded[g][n][i] : i \in 1..Len(Yielded[g][n])} :
                             g \in {"connected", "all"}, n \in 1..(MaxN + 1)}
    IN  [structure \in yielded |-> StructureToG6(structure)]

VARIABLES
    mode,             \* "file": generate_cographs_final_g6, "memory": generate_cographs_g6
    node_count, connected_only, batch_size, num_processes,   \* the arguments
    pc,               \* where the call is
    generator,        \* the generator function chosen
    files,            \* the temporary files that exist
    temp_filename,    \* the scratch file of this call
    scratch,          \* the lines of the scratch file
    total_structures, \* structures written to scratch (the generator's position)
    out_exists, out,  \* the output file and its lines
    f_in_pos,         \* lines of scratch read so far
    batch,            \* the batch read last
    next_task,        \* next item the pool hands to a worker
    running,          \* items being encoded by a worker
    map_results,      \* pool.map's result slots, one per item of the batch
    graph6_results,   \* what pool.map returned
    written,          \* lines of graph6_results written to the output
    total_graph6,
    live_pools,       \* worker pools created and not yet terminated
    ready,            \* imap_unordered: results completed, not yet iterated
    results,          \* generate_cographs_g6's list
    output_filename,  \* the argument output_filename
    return_value      \* what generate_cographs_final_g6 returned

vars == <<mode, node_count, connected_only, batch_size, num_processes,
          output_filename, return_value, pc,
          generator, files, temp_filename, scratch, total_structures,
          out_exists, out, f_in_pos, batch, next_task, running, map_results,
          graph6_results, written, total_graph6, live_pools, ready, results>>

args == <<mode, node_count, connected_only, batch_size, num_processes,
          output_filename>>
poolVars == <<next_task, running, map_results, ready>>
fileVars == <<files, temp_filename, scratch, total_structures, out_exists, out,
              f_in_pos, batch, graph6_results, written, total_graph6>>

Init ==
    /\ mode \in {"file", "memory"}
    /\ node_count \in 1..MaxN
    /\ connected_only \in BOOLEAN
    /\ mode = "memory" =>
          Len(Yielded[IF connected_only THEN "connected" ELSE "all"][node_count])
             <= MaxMemItems
    /\ batch_size \in (IF mode = "file" THEN BatchSizes ELSE {MaxBatch})
    /\ num_processes \in 1..MaxProcs
    /\ pc = "start"
    /\ generator = "none"
    /\ files \in (IF mode = "file" THEN {{}, {"tmpA"}} ELSE {{}})
    /\ temp_filename = "none"
    /\ scratch = <<>>
    /\ total_structures = 0
    /\ out_exists \in (IF mode = "file" THEN BOOLEAN ELSE {FALSE})
    /\ out = IF out_exists THEN <<StaleLine>> ELSE <<>>
    /\ f_in_pos = 0
    /\ batch = <<>>
    /\ next_task = 1
    /\ running = {}
    /\ map_results = <<>>
    /\ graph6_results = <<>>
    /\ written = 0
    /\ total_graph6 = 0
    /\ live_pools = 0
    /\ ready = <<>>
    /\ results = <<>>
    /\ output_filename \in (IF mode = "file" THEN OutputNames ELSE {"none"})
    /\ return_value = "none"

\* -------------------------------------- generate_cographs_final_g6

\* Lines 48-51: the generator for connected_only.
SelectSwapped(connected) == IF connected THEN "all" ELSE "connected"

SelectGenerator(connected) == IF connected THEN "connected" ELSE "all"

\* Lines 45-51.
ChooseGenerator ==
    /\ mode = "file" /\ pc = "start"
    /\ generator' = SelectGenerator(connected_only)
    /\ pc' = "create"
    /\ UNCHANGED <<args, return_value, poolVars, fileVars, live_pools, results>>

\* The names NamedTemporaryFile may return: one no existing file has.
FreshNames(existing) == TempNames \ existing

\* Lines 53-54: the scratch file is created, empty.
CreateTemp ==
    /\ mode = "file" /\ pc = "create"
    /\ \E name \in FreshNames(files) :
          /\ temp_filename' = name
          /\ files' = files \cup {name}
    /\ scratch' = <<>>
    /\ pc' = "generate"
    /\ UNCHANGED <<args, return_value, generator, poolVars, total_structures, out_exists, out,
                   f_in_pos, batch, graph6_results, written, total_graph6,
                   live_pools, results>>

\* Lines 56-58: the next structure of the generator goes to scratch.
WriteStructure ==
    /\ mode = "file" /\ pc = "generate"
    /\ total_structures < Len(Yielded[generator][node_count])
    /\ scratch' = Append(scratch, Yielded[generator][node_count][total_structures + 1])
    /\ total_structures' = total_structures + 1
    /\ UNCHANGED <<args, return_value, pc, generator, poolVars, files, temp_filename, out_exists,
                   out, f_in_pos, batch, graph6_results, written, total_graph6,
                   live_pools, results>>

\* Line 60, once the generator is exhausted: scratch is closed and opened
\* for reading, the output file is created or truncated.
OpenFiles ==
    /\ mode = "file" /\ pc = "generate"
    /\ total_structures = Len(Yielded[generator][node_count])
    /\ f_in_pos' = 0
    /\ out_exists' = TRUE
    /\ out' = <<>>
    /\ pc' = "read"
    /\ UNCHANGED <<args, return_value, generator, poolVars, files, temp_filename, scratch,
                   total_structures, batch, graph6_results, written, total_graph6,
                   live_pools, results>>

\* Line 63 as readlines(size): a size of 0 or less reads every line left.
LinesReadAllIfNotPositive(lines, pos, size) ==
    IF size <= 0 THEN Len(lines) - pos ELSE Min2(size, Len(lines) - pos)

\* Lines read by range(size) calls of readline from position pos.
LinesRead(lines, pos, size) ==
    IF size <= 0 THEN 0 ELSE Min2(size, Len(lines) - pos)

\* Lines 63-64 reading one line too few.
ReadBatchShort(lines, pos, size) ==
    SubSeq(lines, pos + 1, pos + LinesRead(lines, pos, size) - 1)

\* Lines 63-64: the next size lines, stripped, the empty ones dropped
\* (readline gives "" at end of file).
ReadBatchLines(lines, pos, size) ==
    SelectSeq(SubSeq(lines, pos + 1, pos + LinesRead(lines, pos, size)),
              LAMBDA s : s /= <<>>)

\* Lines 63-64.
ReadBatch ==
    /\ mode = "file" /\ pc = "read"
    /\ batch' = ReadBatchLines(scratch, f_in_pos, batch_size)
    /\ f_in_pos' = f_in_pos + LinesRead(scratch, f_in_pos, batch_size)
    /\ pc' = "check"
    /\ UNCHANGED <<args, return_value, generator, poolVars, files, temp_filename, scratch,
                   total_structures, out_exists, out, graph6_results, written,
                   total_graph6, live_pools, results>>

\* Lines 66-67 with continue for break: the loop goes round on an empty batch.
EndOfBatchesContinue ==
    /\ mode = "file" /\ pc = "check"
    /\ batch = <<>>
    /\ pc' = "read"
    /\ UNCHANGED <<args, return_value, generator, poolVars, fileVars, live_pools,
                   results>>

\* Lines 66-67: an empty batch ends the loop; both files are closed.
EndOfBatches ==
    /\ mode = "file" /\ pc = "check"
    /\ batch = <<>>
    /\ pc' = "remove"
    /\ UNCHANGED <<args, return_value, generator, poolVars, fileVars, live_pools, results>>

\* Line 69: a pool for this batch; line 70: pool.map takes the batch.
CreatePool ==
    /\ mode = "file" /\ pc = "check"
    /\ batch /= <<>>
    /\ live_pools' = live_pools + 1
    /\ next_task' = 1
    /\ running' = {}
    /\ map_results' = [i \in 1..Len(batch) |-> NoResult]
    /\ pc' = "map"
    /\ UNCHANGED <<args, return_value, generator, ready, fileVars, results>>

\* The pool hands the next item to an idle worker.  pool.map cuts the batch
\* into chunks of ceil(len / (4 * num_processes)) items, one item within the
\* bounds here; the items are taken in order and finish in any order.
WorkerTake ==
    /\ mode = "file" /\ pc = "map"
    /\ next_task <= Len(batch)
    /\ Cardinality(running) < num_processes
    /\ running' = running \cup {next_task}
    /\ next_task' = next_task + 1
    /\ UNCHANGED <<args, return_value, pc, generator, map_results, ready, fileVars, live_pools,
                   results>>

\* pool.map keeping the results in the order the workers finish.
StoreInCompletionOrder(slots, i, value) ==
    LET free == CHOOSE k \in 1..Len(slots) :
                    slots[k] = NoResult /\ \A j \in 1..(k - 1) : slots[j] /= NoResult
    IN  [slots EXCEPT ![free] = value]

\* pool.map puts the result of item i at position i.
StoreResult(slots, i, value) == [slots EXCEPT ![i] = value]

\* A worker finishes item i: the encoder returned its line, or it raised
\* (any call of the worker may fail, whatever the structure).
WorkerFinish ==
    /\ mode = "file" /\ pc = "map"
    /\ \E i \in running :
          /\ running' = running \ {i}
          /\ \E value \in {G6Lines[batch[i]], Raised} :
                map_results' = StoreResult(map_results, i, value)
    /\ UNCHANGED <<args, return_value, pc, generator, next_task, ready, fileVars, live_pools,
                   results>>

\* The exit of "with mp.Pool(...)" leaving every pool alive.
KeepPool(pools) == pools

\* The exit of "with mp.Pool(...) as pool": the pool is terminated.
PoolExit(pools) == pools - 1

\* pool.map raising only for a failure of the first item.
FirstRaised(slots) == slots[1] = Raised

\* pool.map raises when a worker raised.
MapRaises(slots) == \E i \in 1..Len(slots) : slots[i] = Raised

AllAvailable(slots) == \A i \in 1..Len(slots) : slots[i] /= NoResult

\* Line 70 returns and the with block of line 69 is left.
MapReturns ==
    /\ mode = "file" /\ pc = "map"
    /\ AllAvailable(map_results)
    /\ ~MapRaises(map_results)
    /\ graph6_results' = map_results
    /\ written' = 0
    /\ live_pools' = PoolExit(live_pools)
    /\ pc' = "write"
    /\ UNCHANGED <<args, return_value, generator, poolVars, files, temp_filename, scratch,
                   total_structures, out_exists, out, f_in_pos, batch, total_graph6,
                   results>>

\* Line 70 raises: the with blocks of lines 69 and 60 are left, the
\* exception reaches the caller; lines 72-79 are not run.
MapFails ==
    /\ mode = "file" /\ pc = "map"
    /\ AllAvailable(map_results)
    /\ MapRaises(map_results)
    /\ live_pools' = PoolExit(live_pools)
    /\ pc' = "raised"
    /\ UNCHANGED <<args, return_value, generator, poolVars, fileVars, results>>

\* Lines 72-73: one result is written.
WriteResult ==
    /\ mode = "file" /\ pc = "write"
    /\ written < Len(graph6_results)
    /\ out' = Append(out, graph6_results[written + 1])
    /\ written' = written + 1
    /\ UNCHANGED <<args, return_value, pc, generator, poolVars, files, temp_filename, scratch,
                   total_structures, out_exists, f_in_pos, batch, graph6_results,
                   total_graph6, live_pools, results>>

\* Line 75, then the loop goes round.
CountBatch ==
    /\ mode = "file" /\ pc = "write"
    /\ written = Len(graph6_results)
    /\ total_graph6' = total_graph6 + Len(graph6_results)
    /\ pc' = "read"
    /\ UNCHANGED <<args, return_value, generator, poolVars, files, temp_filename, scratch,
                   total_structures, out_exists, out, f_in_pos, batch,
                   graph6_results, written, live_pools, results>>

\* os.remove forgotten.
KeepFile(existing, name) == existing

\* os.remove(name).
RemoveFile(existing, name) == existing \ {name}

\* Line 77.
RemoveTemp ==
    /\ mode = "file" /\ pc = "remove"
    /\ files' = RemoveFile(files, temp_filename)
    /\ pc' = "return"
    /\ UNCHANGED <<args, return_value, generator, poolVars, temp_filename, scratch,
                   total_structures, out_exists, out, f_in_pos, batch,
                   graph6_results, written, total_graph6, live_pools, results>>

\* Line 79.
ReturnFilename ==
    /\ mode = "file" /\ pc = "return"
    /\ return_value' = output_filename
    /\ pc' = "returned"
    /\ UNCHANGED <<args, generator, poolVars, fileVars, live_pools, results>>

\* ------------------------------------------------ generate_cographs_g6

\* Lines 106-112: the generator is chosen, results is empty, the pool is
\* created and imap_unordered starts on the generator.
MemStart ==
    /\ mode = "memory" /\ pc = "start"
    /\ generator' = SelectGenerator(connected_only)
    /\ results' = <<>>
    /\ live_pools' = live_pools + 1
    /\ next_task' = 1
    /\ running' = {}
    /\ ready' = <<>>
    /\ pc' = "imap"
    /\ UNCHANGED <<args, return_value, map_results, fileVars>>

\* The pool hands the next structure of the generator to an idle worker.
MemTake ==
    /\ mode = "memory" /\ pc = "imap"
    /\ next_task <= Len(Yielded[generator][node_count])
    /\ Cardinality(running) < num_processes
    /\ running' = running \cup {next_task}
    /\ next_task' = next_task + 1
    /\ UNCHANGED <<args, return_value, pc, generator, map_results, ready, fileVars, live_pools,
                   results>>

\* A worker finishes item i; the result joins the iterator's queue.
MemFinish ==
    /\ mode = "memory" /\ pc = "imap"
    /\ \E i \in running :
          /\ running' = running \ {i}
          /\ \E value \in {G6Lines[Yielded[generator][node_count][i]], Raised} :
                ready' = Append(ready, value)
    /\ UNCHANGED <<args, return_value, pc, generator, next_task, map_results, fileVars, live_pools,
                   results>>

\* Line 114 as an assignment: only the last result is kept.
KeepLast(list, g6) == <<g6>>

\* Line 114: results.append(g6).
AppendResult(list, g6) == Append(list, g6)

\* Lines 113-114: the iterator gives the next completed result.
MemCollect ==
    /\ mode = "memory" /\ pc = "imap"
    /\ ready /= <<>>
    /\ Head(ready) /= Raised
    /\ results' = AppendResult(results, Head(ready))
    /\ ready' = Tail(ready)
    /\ UNCHANGED <<args, return_value, pc, generator, next_task, running, map_results, fileVars,
                   live_pools>>

\* Line 113: the next completed result is a worker's exception; it is
\* raised in the caller and the with block of line 112 is left.
MemFails ==
    /\ mode = "memory" /\ pc = "imap"
    /\ ready /= <<>>
    /\ Head(ready) = Raised
    /\ live_pools' = PoolExit(live_pools)
    /\ pc' = "raised"
    /\ UNCHANGED <<args, return_value, generator, poolVars, fileVars, results>>

\* Lines 113-116: the iterator is exhausted, the pool is terminated and
\* the list is returned.
MemReturn ==
    /\ mode = "memory" /\ pc = "imap"
    /\ next_task > Len(Yielded[generator][node_count])
    /\ running = {}
    /\ ready = <<>>
    /\ live_pools' = PoolExit(live_pools)
    /\ pc' = "returned"
    /\ UNCHANGED <<args, return_value, generator, poolVars, fileVars, results>>

Next ==
    \/ ChooseGenerator
    \/ CreateTemp
    \/ WriteStructure
    \/ OpenFiles
    \/ ReadBatch
    \/ EndOfBatches
    \/ CreatePool
    \/ WorkerTake
    \/ WorkerFinish
    \/ MapReturns
    \/ MapFails
    \/ WriteResult
    \/ CountBatch
    \/ RemoveTemp
    \/ ReturnFilename
    \/ MemStart
    \/ MemTake
    \/ MemFinish
    \/ MemCollect
    \/ MemFails
    \/ MemReturn

Spec == Init /\ [][Next]_vars

\* The caller's thread and every worker process keep running: a step that
\* stays possible is taken.
FairSpec == Spec /\ WF_vars(Next)

\* ------------------------------------------------------------ properties

\* The graph6 lines of a sequence of structures, in order.
Encoded(lines) == [k \in 1..Len(lines) |-> StructureToG6(lines[k])]

\* The file call has opened the output file.
AfterOpen ==
    mode = "file" /\ pc \in {"read", "check", "map", "write", "remove", "return",
                             "returned", "raised"}

\* C1: in generate_cographs_final_g6, whatever the batch size, the number of
\* workers and the order in which the workers of a batch finish, line k of
\* the output file is the encoding of line k of the scratch file.
Thm_C1_BatchOrder ==
    AfterOpen =>
        /\ Len(out) <= Len(scratch)
        /\ \A k \in 1..Len(out) : out[k] = StructureToG6(scratch[k])

\* A batch after the first is being encoded and its second item finished
\* before its first.
Wit_C1_OutOfOrder ==
    /\ mode = "file" /\ pc = "map"
    /\ batch_size >= 2 /\ Len(out) >= batch_size
    /\ Len(batch) >= 2
    /\ map_results[1] = NoResult
    /\ map_results[2] \notin {NoResult, Raised}

\* C2: for every batch_size >= 1 the file call encodes every structure
\* exactly once: when it returns the output has one line per structure
\* written to scratch, the encodings of the scratch lines, none dropped and
\* none twice; the lines read never run ahead of the lines of scratch.
Thm_C2_EveryStructureOnce ==
    /\ AfterOpen => Len(out) <= f_in_pos /\ f_in_pos <= Len(scratch)
    /\ (mode = "file" /\ pc = "returned" /\ batch_size >= 1) =>
          /\ Len(scratch) = total_structures
          /\ Len(out) = total_structures
          /\ total_graph6 = total_structures
          /\ out = Encoded(scratch)

\* The call returned after batches of three over five structures.
Wit_C2_UnevenBatches ==
    /\ mode = "file" /\ pc = "returned"
    /\ batch_size = 3 /\ total_structures = 5
    /\ Len(out) = 5

\* The values of a sequence with how often each occurs.
BagOfSeq(s) ==
    [v \in {s[i] : i \in 1..Len(s)} |-> Cardinality({i \in 1..Len(s) : s[i] = v})]

\* C3: generate_cographs_g6 returns, in whatever order the workers finish,
\* a permutation of the encodings of the structures the generator yields.
Thm_C3_Permutation ==
    (mode = "memory" /\ pc = "returned") =>
        /\ Len(results) = Len(Yielded[generator][node_count])
        /\ BagOfSeq(results) = BagOfSeq(Encoded(Yielded[generator][node_count]))

\* The list was returned in an order other than the generator's.
Wit_C3_Reordered ==
    /\ mode = "memory" /\ pc = "returned"
    /\ Len(results) >= 2
    /\ results /= Encoded(Yielded[generator][node_count])

\* C4: when the encoder fails on a structure of a batch, the batch is
\* aborted and the failure reaches the caller; the output file holds exactly
\* the encoded lines of the batches before it, in order, and no line of the
\* failed batch or of a later one.
Thm_C4_FailureKeepsPriorBatches ==
    mode = "file" =>
        /\ (\E i \in 1..Len(map_results) : map_results[i] = Raised) =>
              pc \in {"map", "raised"}
        /\ \A k \in 1..Len(out) : out[k] /= Raised
        /\ pc = "raised" =>
              /\ \E i \in 1..Len(map_results) : map_results[i] = Raised
              /\ (f_in_pos - Len(batch)) % batch_size = 0
              /\ out = Encoded(SubSeq(scratch, 1, f_in_pos - Len(batch)))

\* A failure in a batch after the first, with structures still unread.
Wit_C4_LaterBatchFailed ==
    /\ mode = "file" /\ pc = "raised"
    /\ Len(out) > 0
    /\ f_in_pos < Len(scratch)

\* C5: the file call creates a scratch file no existing file has the name
\* of, empty; the scratch file is removed only once the last batch is
\* written to the output; and when the call returns its scratch file is gone.
Thm_C5_ScratchLifecycle ==
    [][/\ (pc = "create" /\ pc' /= "create") =>
              /\ temp_filename' \notin files
              /\ temp_filename' \in files'
              /\ scratch' = <<>>
       /\ (temp_filename \in files /\ temp_filename \notin files') =>
              /\ batch = <<>>
              /\ Len(out) = f_in_pos
              /\ batch_size >= 1 => out = Encoded(scratch)
       /\ (mode = "file" /\ pc' = "returned") => temp_filename' \notin files'
      ]_vars

\* A call that found an older scratch file, took another name, wrote
\* output and returned.
Wit_C5_FreshAndRemoved ==
    /\ mode = "file" /\ pc = "returned"
    /\ temp_filename = "tmpB" /\ files = {"tmpA"}
    /\ Len(out) >= 2

\* C6: the file call with node_count = 2 writes exactly one line, the
\* two-vertex complete graph "A_", when connected_only, and otherwise
\* exactly two lines, the edge graph "A_" and the empty graph "A?"
\* (batch_size at least 1, as the default is).
Thm_C6_TwoVertices ==
    (mode = "file" /\ pc = "returned" /\ node_count = 2 /\ batch_size >= 1) =>
        out = IF connected_only THEN << <<65, 95>> >>
              ELSE << <<65, 95>>, <<65, 63>> >>

\* The call for all cographs on two vertices returned.
Wit_C6_AllOnTwo ==
    /\ mode = "file" /\ pc = "returned"
    /\ node_count = 2 /\ ~connected_only /\ batch_size >= 1
    /\ Len(out) = 2

\* C7: the connected enumeration yields 1, 1, 2, 5 structures and the
\* enumeration of all cographs 1, 2, 4, 10 for 1, 2, 3, 4 leaves.
Thm_C7_Counts ==
    (AfterOpen /\ node_count <= 4) =>
        total_structures = IF connected_only THEN <<1, 1, 2, 5>>[node_count]
                           ELSE <<1, 2, 4, 10>>[node_count]

\* All ten cographs on four vertices were written to scratch.
Wit_C7_TenOnFour ==
    /\ AfterOpen
    /\ node_count = 4 /\ ~connected_only
    /\ total_structures = 10

ParentOperator(s, i) ==
    LET opens == {k \in 1..(i - 1) : s[k] = "(" /\ Balance(s, k) = Balance(s, i) - 1}
        m == CHOOSE k \in opens : \A o \in opens : o <= k
    IN  s[m - 1]

\* C9: in every structure the composer started at depth 0 yields, a node
\* at even depth is J and one at odd depth is U, so no J has a J child and
\* no U a U child, and with two or more leaves the root is J.
Thm_C9_Alternation ==
    (mode = "file" /\ connected_only) =>
        \A k \in 1..Len(scratch) :
            LET s == scratch[k]
            IN  /\ node_count >= 2 => s[1] = "J"
                /\ \A i \in 1..Len(s) :
                      /\ s[i] = "J" => Balance(s, i) % 2 = 0
                      /\ s[i] = "U" => Balance(s, i) % 2 = 1
                      /\ (s[i] \in {"J", "U"} /\ i > 1) => ParentOperator(s, i) /= s[i]

\* A structure with a J below a U below the root J is in scratch.
Wit_C9_ThreeLevels ==
    /\ mode = "file" /\ connected_only
    /\ \E k \in 1..Len(scratch) : \E i \in 1..Len(scratch[k]) :
          scratch[k][i] = "J" /\ Balance(scratch[k], i) = 2

\* C10: in file mode at most one pool is alive, and only while its batch
\* is being encoded; nothing of a batch is written before all its results
\* are there; the next batch is read only when every line of the batches
\* before is written; the pool is terminated before the next is created
\* and before the call ends, by return or by a worker's failure.
Thm_C10_OnePoolPerBatch ==
    mode = "file" =>
        /\ live_pools <= 1
        /\ pc /= "map" => live_pools = 0
        /\ pc = "map" => live_pools = 1 /\ Len(out) = f_in_pos - Len(batch)
        /\ pc = "write" =>
              /\ Len(graph6_results) = Len(batch)
              /\ AllAvailable(graph6_results)
              /\ running = {}
              /\ Len(out) = f_in_pos - Len(batch) + written
        /\ pc = "read" => Len(out) = f_in_pos
        /\ pc = "check" => Len(out) = f_in_pos - Len(batch)

\* The second pool or a later one was terminated by a worker's failure.
Wit_C10_PoolGoneAfterFailure ==
    /\ mode = "file" /\ pc = "raised"
    /\ live_pools = 0
    /\ batch_size >= 1 /\ Len(out) >= batch_size
    /\ num_processes >= 2

\* C11: for batch_size >= 1 the file call ends when no encoding fails: each
\* turn of the loop reads the next batch_size lines (fewer at the end of
\* scratch), the loop is left at the first batch that is empty, which is at
\* the end of scratch, and the call returns the output_filename it was given.
Thm_C11_TerminatesWithPath ==
    /\ [][(mode = "file" /\ batch_size >= 1) =>
             /\ (pc = "read" /\ pc' = "check") =>
                   /\ batch' = SubSeq(scratch, f_in_pos + 1,
                                      Min2(f_in_pos + batch_size, Len(scratch)))
                   /\ f_in_pos' = f_in_pos + Len(batch')
             /\ (pc = "check" /\ pc' = "remove") =>
                   batch = <<>> /\ f_in_pos = Len(scratch)
             /\ (pc = "check" /\ batch = <<>>) => pc' = "remove"
             /\ pc' = "returned" => return_value' = output_filename
         ]_vars
    /\ (mode = "file" /\ batch_size >= 1) =>
          <>(\/ pc = "returned" /\ return_value = output_filename
             \/ \E i \in 1..Len(map_results) : map_results[i] = Raised)

\* The call returned its output path after three batches, the last one short.
Wit_C11_ReturnedAfterShortBatch ==
    /\ mode = "file" /\ pc = "returned"
    /\ return_value = output_filename /\ output_filename = "outB"
    /\ batch_size = 2 /\ total_structures = 5
    /\ total_graph6 = 5

\* C12: with batch_size <= 0 the first batch is empty and the loop ends at
\* once: no pool is created and nothing is encoded, the output file is
\* created empty, no error is raised, and the call removes the scratch file
\* and returns the output path, however many structures scratch holds.
Thm_C12_NonPositiveBatchSize ==
    /\ []((mode = "file" /\ batch_size <= 0) =>
             /\ live_pools = 0
             /\ pc \notin {"map", "write", "raised"}
             /\ map_results = <<>> /\ graph6_results = <<>> /\ running = {}
             /\ f_in_pos = 0 /\ batch = <<>> /\ total_graph6 = 0
             /\ AfterOpen => out_exists /\ out = <<>>
             /\ pc = "returned" =>
                   /\ temp_filename \notin files
                   /\ return_value = output_filename)
    /\ (mode = "file" /\ batch_size <= 0) => <>(pc = "returned")

\* A call with batch_size 0 over ten structures returned, the output that
\* held an older line now empty.
Wit_C12_ZeroBatchTenStructures ==
    /\ mode = "file" /\ pc = "returned"
    /\ batch_size = 0 /\ Len(scratch) = 10
    /\ out_exists /\ out = <<>>
    /\ temp_filename \notin files
====
